---- MODULE Spec2Model ----
(***************************************************************************)
(* Mailbox synchronization engine of ReachInbox (EmailSyncService and the  *)
(* services it calls): the orchestrator startAll, one connectAndSync       *)
(* supervisor per account, the backfill fetcher, the live 'exists'         *)
(* handler, connection maintenance (close handler, reconnect timer,        *)
(* keep-alive loop) and the handleEmail pipeline over the index store.     *)
(*                                                                         *)
(* Every `await` of the source is a suspension point: the code between two *)
(* awaits of one task is one atomic action, and the actions of different   *)
(* tasks interleave freely (Node's single-threaded event loop).            *)
(***************************************************************************)
EXTENDS Integers, Sequences, FiniteSets, Bags, TLC

(***************************************************************************)
(* Bounds of the model (not program constants).                            *)
(***************************************************************************)
\* Disturbances over one run with a single configured account: failures of
\* external calls, connection closures and message arrivals, counted together.
MaxEvents == 2
\* The same with two configured accounts.
MaxEventsPair == 1

(***************************************************************************)
(* Strings are sequences of one-character strings.                          *)
(***************************************************************************)
Str_a == <<"<", "a", ">">>
Str_a_padded == <<" ", "a", " ">>
Str_b == <<"<", "b", ">">>
Str_empty == <<>>

\* String.prototype.replace(/[<>]/g, ''): every angle bracket removed.
StripAngles(s) == SelectSeq(s, LAMBDA c : c \notin {"<", ">"})

\* The white space String.prototype.trim() removes, as far as the model's
\* strings hold any: space, tab and line feed.
WhiteSpace == {" ", "\t", "\n"}

RECURSIVE TrimStart(_)
TrimStart(s) == IF s # <<>> /\ Head(s) \in WhiteSpace THEN TrimStart(Tail(s)) ELSE s

RECURSIVE TrimEnd(_)
TrimEnd(s) ==
    IF s # <<>> /\ s[Len(s)] \in WhiteSpace THEN TrimEnd(SubSeq(s, 1, Len(s) - 1))
                                              ELSE s

\* String.prototype.trim(): whitespace removed at both ends only.
Trim(s) == TrimEnd(TrimStart(s))

\* Variant of MessageIdClean: the identifier is not trimmed.
MessageIdCleanNoTrim(raw) == StripAngles(raw)

\* messageIdRaw.replace(/[<>]/g, '').trim()
MessageIdClean(raw) == Trim(StripAngles(raw))

\* crypto.createHash('sha1').update(s).digest('hex'), taken as injective.
Sha1(s) == <<"sha1", s>>

Fingerprint(raw) == Sha1(MessageIdClean(raw))

(***************************************************************************)
(* Folder classifier.                                                      *)
(***************************************************************************)
UpperCase == 
    <<"A", "B", "C", "D", "E", "F", "G", "H", "I", "J", "K", "L", "M">>
    \o <<"N", "O", "P", "Q", "R", "S", "T", "U", "V", "W", "X", "Y", "Z">>
LowerCase == 
    <<"a", "b", "c", "d", "e", "f", "g", "h", "i", "j", "k", "l", "m">>
    \o <<"n", "o", "p", "q", "r", "s", "t", "u", "v", "w", "x", "y", "z">>

\* One character of String.prototype.toLowerCase().
LowerChar(c) ==
    IF \E i \in 1..Len(UpperCase) : UpperCase[i] = c
    THEN LowerCase[CHOOSE i \in 1..Len(UpperCase) : UpperCase[i] = c]
    ELSE c

ToLowerCase(s) == [i \in 1..Len(s) |-> LowerChar(s[i])]

\* String.prototype.includes
Includes(s, sub) ==
    \E i \in 0..(Len(s) - Len(sub)) : SubSeq(s, i + 1, i + Len(sub)) = sub

Kw_inbox == <<"i", "n", "b", "o", "x">>
Kw_sent == <<"s", "e", "n", "t">>
Kw_sent_mail == <<"s", "e", "n", "t", " ", "m", "a", "i", "l">>
Kw_draft == <<"d", "r", "a", "f", "t">>
Kw_spam == <<"s", "p", "a", "m">>
Kw_junk == <<"j", "u", "n", "k">>
Kw_trash == <<"t", "r", "a", "s", "h">>
Kw_bin == <<"b", "i", "n">>
Kw_important == <<"i", "m", "p", "o", "r", "t", "a", "n", "t">>
Kw_starred == <<"s", "t", "a", "r", "r", "e", "d">>
Kw_all_mail == <<"a", "l", "l", " ", "m", "a", "i", "l">>

\* Variant of determineSpecialUse: the flags are consulted before the name.
determineSpecialUseFlagsFirst(folderName, flags) ==
    LET lowerName == ToLowerCase(folderName) IN
    IF "\\Inbox" \in flags THEN "inbox"
    ELSE IF "\\Sent" \in flags THEN "sent"
    ELSE IF "\\Drafts" \in flags THEN "drafts"
    ELSE IF "\\Junk" \in flags \/ "\\Spam" \in flags THEN "spam"
    ELSE IF "\\Trash" \in flags THEN "trash"
    ELSE IF "\\Important" \in flags THEN "important"
    ELSE IF "\\All" \in flags THEN "archive"
    ELSE IF Includes(lowerName, Kw_inbox) THEN "inbox"
    ELSE IF Includes(lowerName, Kw_sent) \/ Includes(lowerName, Kw_sent_mail) THEN "sent"
    ELSE IF Includes(lowerName, Kw_draft) THEN "drafts"
    ELSE IF Includes(lowerName, Kw_spam) \/ Includes(lowerName, Kw_junk) THEN "spam"
    ELSE IF Includes(lowerName, Kw_trash) \/ Includes(lowerName, Kw_bin) THEN "trash"
    ELSE IF Includes(lowerName, Kw_important) THEN "important"
    ELSE IF Includes(lowerName, Kw_starred) THEN "starred"
    ELSE IF Includes(lowerName, Kw_all_mail) THEN "archive"
    ELSE "custom"

determineSpecialUse(folderName, flags) ==
    LET lowerName == ToLowerCase(folderName) IN
    IF Includes(lowerName, Kw_inbox) THEN "inbox"
    ELSE IF Includes(lowerName, Kw_sent) \/ Includes(lowerName, Kw_sent_mail) THEN "sent"
    ELSE IF Includes(lowerName, Kw_draft) THEN "drafts"
    ELSE IF Includes(lowerName, Kw_spam) \/ Includes(lowerName, Kw_junk) THEN "spam"
    ELSE IF Includes(lowerName, Kw_trash) \/ Includes(lowerName, Kw_bin) THEN "trash"
    ELSE IF Includes(lowerName, Kw_important) THEN "important"
    ELSE IF Includes(lowerName, Kw_starred) THEN "starred"
    ELSE IF Includes(lowerName, Kw_all_mail) THEN "archive"
    ELSE IF "\\Inbox" \in flags THEN "inbox"
    ELSE IF "\\Sent" \in flags THEN "sent"
    ELSE IF "\\Drafts" \in flags THEN "drafts"
    ELSE IF "\\Junk" \in flags \/ "\\Spam" \in flags THEN "spam"
    ELSE IF "\\Trash" \in flags THEN "trash"
    ELSE IF "\\Important" \in flags THEN "important"
    ELSE IF "\\All" \in flags THEN "archive"
    ELSE "custom"

(***************************************************************************)
(* The configured accounts and what their servers hold.                    *)
(***************************************************************************)
\* getImapAccounts(): the accounts IMAP1 and IMAP2, each present when the
\* environment configures it.
Accounts == {"a1", "a2"}

Name_INBOX == <<"I", "N", "B", "O", "X">>
Name_Sent == <<"S", "e", "n", "t">>

\* What client.list() returns for each account, in listing order.
ServerFolders ==
    [a \in Accounts |->
        IF a = "a1"
        THEN << [name |-> Name_INBOX, path |-> Name_INBOX, flags |-> {}],
                [name |-> Name_Sent, path |-> Name_Sent, flags |-> {"\\Sent"}] >>
        ELSE << [name |-> Name_INBOX, path |-> Name_INBOX, flags |-> {}] >>]

\* A fetched message: only envelope.messageId decides the control flow.
Msg(raw) == [hasId |-> TRUE, messageId |-> raw]
MsgNoId == [hasId |-> FALSE, messageId |-> <<>>]

\* The messages each server folder holds when the engine starts, all within
\* the backfill window.
InitialMailbox ==
    [a \in Accounts |->
        IF a = "a1" THEN << <<Msg(Str_a)>>, <<Msg(Str_a_padded)>> >>
                    ELSE << <<Msg(Str_a_padded)>> >>]

\* The messages that may arrive in an INBOX while the engine runs.
ArrivalMsgs == {Msg(Str_b), MsgNoId}

\* The label list of the classifier.
LABELS == {"Interested", "Meeting Booked", "Not Interested", "Spam", "Out of Office"}

\* The characters of each label.
LabelText ==
    [l \in LABELS |->
        CASE l = "Interested" -> <<"I", "n", "t", "e", "r", "e", "s", "t", "e", "d">>
          [] l = "Meeting Booked" -> <<"M", "e", "e", "t", "i", "n", "g", " ", "B", "o", "o", "k", "e", "d">>
          [] l = "Not Interested" -> <<"N", "o", "t", " ", "I", "n", "t", "e", "r", "e", "s", "t", "e", "d">>
          [] l = "Spam" -> <<"S", "p", "a", "m">>
          [] l = "Out of Office" -> <<"O", "u", "t", " ", "o", "f", " ", "O", "f", "f", "i", "c", "e">>]

Reply_interested == <<"i", "n", "t", "e", "r", "e", "s", "t", "e", "d", " ">>
Reply_maybe == <<"m", "a", "y", "b", "e">>

\* Reply texts of the classification API the model draws from: a label in
\* another case with a line break's worth of padding, and no label at all.
ClassifierReplies == {Reply_interested, Reply_maybe}

\* The two callers of handleEmail within one account: the backfill fetcher
\* and the live 'exists' handler.
Who == {"bf", "live"}

VARIABLES
    accounts,     \* the accounts getImapAccounts() returns
    orch,         \* startAll: "start", "done" (returned) or "failed" (rejected)
    createStatus, \* startAll: what indices.create answered ("none": not yet)
    sup,          \* per account: the running connectAndSync invocation
    client,       \* per account: the ImapFlow client of that invocation
    gen,          \* per account: how many clients have been created
    monRunning,   \* per account: `running` as bound in setupRealtimeMonitoring
    maintRunning, \* per account: `running` as bound in setupConnectionMaintenance
    ka,           \* per account: the keep-alive loop
    timer,        \* per account: pending reconnect timers
    live,         \* per account: the 'exists' handler invocation holding the lock
    waiting,      \* per account: 'exists' handler invocations awaiting the lock
    h,            \* per account and caller: the handleEmail invocation
    store,        \* the documents of the index 'emails'
    mailbox,      \* per account: the messages of each server folder
    events,       \* disturbances so far
    writes,       \* the bag of the ids written to the index store so far
    completed,    \* ids of the handleEmail calls that have returned normally
    probe         \* a call of one of the pure functions: its arguments and result

vars == <<accounts, orch, createStatus, sup, client, gen, monRunning, maintRunning, ka, timer,
          live, waiting, h, store, mailbox, events, writes, completed, probe>>

\* The state of the connections and of the tasks working on them.
connVars == <<client, gen, monRunning, maintRunning, ka, timer, live, waiting>>

\* The state of the handleEmail pipeline and of the index store.
pipeVars == <<h, store, writes, completed>>

\* The folder record used when no folder is bound.
NoFolder == [name |-> <<>>, path |-> <<>>, flags |-> {}, specialUse |-> "undefined"]

IdleTask ==
    [pc |-> "idle", folder |-> NoFolder, clean |-> <<>>, id |-> <<>>,
     label |-> "none", second |-> FALSE, clsFailed |-> FALSE, wrote |-> FALSE,
     slack |-> "none", webhook |-> "none", err |-> "none",
     nSlack |-> 0, nWebhook |-> 0, msg |-> MsgNoId, nGet |-> 0]

IdleSup == [pc |-> "idle", folders |-> <<>>, fi |-> 0, mi |-> 0, n |-> 0]

NoClient ==
    [state |-> "none", lock |-> "free", onExists |-> FALSE, onClose |-> FALSE,
     monFolder |-> NoFolder]

IdleLive == [pc |-> "idle", gen |-> 0, uid |-> 0, folder |-> NoFolder]

\* No pure function is being called on its own.
NoProbe == [fn |-> "none"]

\* The engine before startAll is called.
EngineInit ==
    /\ orch = "start"
    /\ createStatus = "none"
    /\ sup = [a \in Accounts |-> IdleSup]
    /\ client = [a \in Accounts |-> NoClient]
    /\ gen = [a \in Accounts |-> 0]
    /\ monRunning = [a \in Accounts |-> FALSE]
    /\ maintRunning = [a \in Accounts |-> FALSE]
    /\ ka = [a \in Accounts |-> "off"]
    /\ timer = [a \in Accounts |-> 0]
    /\ live = [a \in Accounts |-> IdleLive]
    /\ waiting = [a \in Accounts |-> 0]
    /\ h = [a \in Accounts |-> [w \in Who |-> IdleTask]]
    /\ store = {}
    /\ mailbox = InitialMailbox
    /\ events = 0
    /\ writes = EmptyBag
    /\ completed = {}

Init ==
    /\ accounts \in {{"a1"}, {"a2"}, {"a1", "a2"}}
    /\ EngineInit
    /\ probe = NoProbe

\* The environment may disturb the run once more.
CanDisturb ==
    events < (IF Cardinality(accounts) = 1 THEN MaxEvents ELSE MaxEventsPair)

Disturb == events' = events + 1

(***************************************************************************)
(* The index store (Elasticsearch, index 'emails').                        *)
(***************************************************************************)
\* esClient.get({index, id}) finds a document (otherwise: 404).
EsHas(docs, id) == \E d \in docs : d.id = id

\* esClient.index({index, id, document}): create, or overwrite by id.
EsIndex(docs, id, doc) == {d \in docs : d.id # id} \cup {doc}

(***************************************************************************)
(* AICategorizationService.categorizeEmail                                 *)
(***************************************************************************)
\* LABELS.find(l => l.toLowerCase() === labelRaw.trim().toLowerCase()) || 'Out of Office'
LabelNorm(reply) ==
    LET found == {l \in LABELS : ToLowerCase(LabelText[l]) = ToLowerCase(Trim(reply))}
    IN IF found # {} THEN CHOOSE l \in found : TRUE ELSE "Out of Office"

\* The label returned when the request to the classification API fails.
FallbackLabel == "Spam"

(***************************************************************************)
(* handleEmail                                                             *)
(***************************************************************************)
\* The document built for a message.
EmailDoc(account, folder, clean, id, label) ==
    [id |-> id, messageId |-> clean, account |-> account, folder |-> folder.name,
     folderType |-> folder.specialUse, aiCategory |-> "null"]

\* Variant of MessageId: the hash is taken of the raw identifier.
MessageIdOfRaw(raw) == Sha1(raw)

\* The document id of a raw message identifier.
MessageId(raw) == Fingerprint(raw)

\* Variant of LacksId: the test is left out.
LacksIdNever(msg) == FALSE

\* `!messageIdRaw`: the identifier is absent or the empty string.
LacksId(msg) == ~msg.hasId \/ msg.messageId = <<>>

\* handleEmail up to its first await: a message without identifier returns at
\* once, any other one has its id computed and the existence check issued.
HandleEmailStart(msg, folder, done) ==
    IF LacksId(msg)
    THEN [IdleTask EXCEPT !.pc = "returned", !.folder = folder, !.msg = msg]
    ELSE [IdleTask EXCEPT !.pc = "get", !.folder = folder, !.msg = msg,
                          !.nGet = 1,
                          !.clean = MessageIdClean(msg.messageId),
                          !.id = MessageId(msg.messageId),
                          !.second = (MessageId(msg.messageId) \in done)]

\* The ids of the calls that have returned normally, once call t has.
Returned(t) == IF t.id # <<>> THEN completed \cup {t.id} ELSE completed

\* Variant of GetFinds: every existence check answers 404.
GetFindsNothing(docs, id) == FALSE

\* The answer of esClient.get for an id: the document is found.
GetFinds(docs, id) == EsHas(docs, id)

\* esClient.get answers with the document: already indexed, return.
HGetFound(a, w) ==
    /\ h[a][w].pc = "get"
    /\ GetFinds(store, h[a][w].id)
    /\ h' = [h EXCEPT ![a][w].pc = "returned"]
    /\ completed' = Returned(h[a][w])
    /\ UNCHANGED <<accounts, probe, createStatus, orch, sup, connVars, store, mailbox, events, writes>>

\* esClient.get answers 404: go on to the classification.
HGetNotFound(a, w) ==
    /\ h[a][w].pc = "get"
    /\ ~GetFinds(store, h[a][w].id)
    /\ h' = [h EXCEPT ![a][w].pc = "classify"]
    /\ UNCHANGED <<accounts, probe, createStatus, orch, sup, connVars, store, mailbox, events, writes,
                   completed>>

\* Variant of AfterGetError: every error counts as not found.
AfterGetErrorContinues == "classify"

\* Where handleEmail goes when esClient.get has failed with a status other
\* than 404: the error is rethrown.
AfterGetError == "threw"

\* esClient.get fails with another error: rethrown.
HGetError(a, w) ==
    /\ h[a][w].pc = "get"
    /\ CanDisturb
    /\ Disturb
    /\ h' = [h EXCEPT ![a][w].pc = AfterGetError, ![a][w].err = "get"]
    /\ UNCHANGED <<accounts, probe, createStatus, orch, sup, connVars, store, mailbox, writes, completed>>

\* categorizeEmail: the API answers, the reply is matched against LABELS.
HClassifyOk(a, w) ==
    /\ h[a][w].pc = "classify"
    /\ \E reply \in ClassifierReplies :
           h' = [h EXCEPT ![a][w].pc = "index", ![a][w].label = LabelNorm(reply)]
    /\ UNCHANGED <<accounts, probe, createStatus, orch, sup, connVars, store, mailbox, events, writes,
                   completed>>

\* Variant of AfterClassifyFailure: the service lets the error through.
AfterClassifyFailureThrows == "threw"

\* Where handleEmail goes when the classification request has failed: the
\* service catches the error and returns the fallback label.
AfterClassifyFailure == "index"

\* categorizeEmail: the request fails, caught inside the service.
HClassifyFail(a, w) ==
    /\ h[a][w].pc = "classify"
    /\ CanDisturb
    /\ Disturb
    /\ h' = [h EXCEPT ![a][w].pc = AfterClassifyFailure,
                      ![a][w].label = FallbackLabel, ![a][w].clsFailed = TRUE]
    /\ UNCHANGED <<accounts, probe, createStatus, orch, sup, connVars, store, mailbox, writes, completed>>

\* Variant of AfterIndex: the notifiers are called whatever the category.
AfterIndexAlwaysNotifies(label) == "slack"

\* Where handleEmail goes after the document is written: the notifiers are
\* called for an Interested message only.
AfterIndex(label) == IF label = "Interested" THEN "slack" ELSE "returned"

\* esClient.index succeeds; then the notifications, for an Interested message.
HIndexOk(a, w) ==
    LET t == h[a][w] IN
    /\ t.pc = "index"
    /\ store' = EsIndex(store, t.id, EmailDoc(a, t.folder, t.clean, t.id, t.label))
    /\ writes' = writes (+) SetToBag({t.id})
    /\ h' = [h EXCEPT ![a][w].pc = AfterIndex(t.label), ![a][w].wrote = TRUE]
    /\ completed' = IF AfterIndex(t.label) = "returned" THEN Returned(t) ELSE completed
    /\ UNCHANGED <<accounts, probe, createStatus, orch, sup, connVars, mailbox, events>>

\* esClient.index fails: handleEmail throws.
HIndexFail(a, w) ==
    /\ h[a][w].pc = "index"
    /\ CanDisturb
    /\ Disturb
    /\ h' = [h EXCEPT ![a][w].pc = "threw", ![a][w].err = "index"]
    /\ UNCHANGED <<accounts, probe, createStatus, orch, sup, connVars, store, mailbox, writes, completed>>

\* Variant of AfterSlackFailure: the notifier's error leaves handleEmail.
AfterSlackFailureThrows == "threw"

\* Where handleEmail goes when the chat notifier has thrown: to the catch of
\* the try block that holds both notifier calls.
AfterSlackFailure == "returned"

\* slack.sendInterestedEmailNotification succeeds: on to the webhook.
HSlackOk(a, w) ==
    /\ h[a][w].pc = "slack"
    /\ h' = [h EXCEPT ![a][w].pc = "webhook", ![a][w].slack = "ok",
                      ![a][w].nSlack = @ + 1]
    /\ UNCHANGED <<accounts, probe, createStatus, orch, sup, connVars, store, mailbox, events, writes,
                   completed>>

\* slack.sendInterestedEmailNotification throws.
HSlackFail(a, w) ==
    /\ h[a][w].pc = "slack"
    /\ CanDisturb
    /\ Disturb
    /\ h' = [h EXCEPT ![a][w].pc = AfterSlackFailure, ![a][w].slack = "failed",
                      ![a][w].nSlack = @ + 1]
    /\ completed' = IF AfterSlackFailure = "returned" THEN Returned(h[a][w])
                                                       ELSE completed
    /\ UNCHANGED <<accounts, probe, createStatus, orch, sup, connVars, store, mailbox, writes>>

\* webhook.triggerInterestedEmailWebhook succeeds.
HWebhookOk(a, w) ==
    /\ h[a][w].pc = "webhook"
    /\ h' = [h EXCEPT ![a][w].pc = "returned", ![a][w].webhook = "ok",
                      ![a][w].nWebhook = @ + 1]
    /\ completed' = Returned(h[a][w])
    /\ UNCHANGED <<accounts, probe, createStatus, orch, sup, connVars, store, mailbox, events, writes>>

\* webhook.triggerInterestedEmailWebhook: the post fails, caught inside.
HWebhookFail(a, w) ==
    /\ h[a][w].pc = "webhook"
    /\ CanDisturb
    /\ Disturb
    /\ h' = [h EXCEPT ![a][w].pc = "returned", ![a][w].webhook = "failed",
                      ![a][w].nWebhook = @ + 1]
    /\ completed' = Returned(h[a][w])
    /\ UNCHANGED <<accounts, probe, createStatus, orch, sup, connVars, store, mailbox, writes>>

(***************************************************************************)
(* startAll                                                                *)
(***************************************************************************)
\* connectAndSync up to its first await: a new client, connect() issued.
NewClient == [NoClient EXCEPT !.state = "connecting"]

\* Variant of Launched: the loop awaits each connectAndSync, so that only
\* the first account is started by the time nothing else is ready to run.
LaunchedFirstOnly(accts) == IF "a1" \in accts THEN {"a1"} ELSE accts

\* The accounts whose connectAndSync the loop of startAll has called when
\* startAll returns: all of them, none is awaited.
Launched(accts) == accts

\* What indices.create can answer: the index was created, it exists already
\* (status 400), the store cannot be reached or refuses.
CreateResponses == {"created", "exists", "error"}

\* Variant of Ignored: no status is ignored.
IgnoredNone(status) == FALSE

\* `{ ignore: [400] }`: the answer that the index exists already is no error.
Ignored(status) == status = "exists"

\* indices.create succeeds (or answers 400, ignored); the loop then launches
\* connectAndSync for every account without awaiting any of them.
StartAllLaunch ==
    /\ orch = "start"
    /\ \E status \in CreateResponses :
          /\ status = "created" \/ Ignored(status)
          /\ createStatus' = status
    /\ orch' = "done"
    /\ sup' = [a \in Accounts |-> IF a \in Launched(accounts)
                                  THEN [IdleSup EXCEPT !.pc = "connect"]
                                  ELSE sup[a]]
    /\ client' = [a \in Accounts |-> IF a \in Launched(accounts) THEN NewClient
                                                                 ELSE client[a]]
    /\ gen' = [a \in Accounts |-> IF a \in Launched(accounts) THEN 1 ELSE gen[a]]
    /\ UNCHANGED <<accounts, probe, monRunning, maintRunning, ka, timer, live, waiting,
                   mailbox, events, pipeVars>>

\* indices.create fails with an error that is not ignored: startAll rejects
\* before its loop.
StartAllFail ==
    /\ orch = "start"
    /\ \E status \in CreateResponses \ {"created"} :
          /\ ~Ignored(status)
          /\ createStatus' = status
    /\ CanDisturb
    /\ Disturb
    /\ orch' = "failed"
    /\ UNCHANGED <<accounts, probe, sup, connVars, mailbox, pipeVars>>

(***************************************************************************)
(* connectAndSync                                                          *)
(***************************************************************************)
\* client.connect() resolves; folder discovery is issued.
ConnectOk(a) ==
    /\ sup[a].pc = "connect"
    /\ sup' = [sup EXCEPT ![a].pc = "list"]
    /\ client' = [client EXCEPT ![a].state = "open"]
    /\ UNCHANGED <<accounts, probe, createStatus, orch, gen, monRunning, maintRunning, ka, timer, live,
                   waiting, mailbox, events, pipeVars>>

\* client.connect() rejects: connectAndSync rejects; the rejection is logged
\* by startAll's catch, or unhandled when the reconnect timer made the call.
ConnectFail(a) ==
    /\ sup[a].pc = "connect"
    /\ CanDisturb
    /\ Disturb
    /\ sup' = [sup EXCEPT ![a].pc = "failed"]
    /\ client' = [client EXCEPT ![a].state = "failed"]
    /\ UNCHANGED <<accounts, probe, createStatus, orch, gen, monRunning, maintRunning, ka, timer, live,
                   waiting, mailbox, pipeVars>>

\* getAllFolders: the listing with each folder's special use.
ProcessedFoldersReversed(a) ==
    [i \in 1..Len(ServerFolders[a]) |->
        LET f == ServerFolders[a][Len(ServerFolders[a]) + 1 - i]
        IN [name |-> f.name, path |-> f.path, flags |-> f.flags,
            specialUse |-> determineSpecialUse(f.name, f.flags)]]

\* getAllFolders when list() resolves: the listed folders, in listing order,
\* each with its special use.
ProcessedFolders(a) ==
    [i \in 1..Len(ServerFolders[a]) |->
        [name |-> ServerFolders[a][i].name, path |-> ServerFolders[a][i].path,
         flags |-> ServerFolders[a][i].flags,
         specialUse |-> determineSpecialUse(ServerFolders[a][i].name,
                                            ServerFolders[a][i].flags)]]

\* getAllFolders when list() fails: INBOX alone, without a special use.
FallbackFolders ==
    << [name |-> Name_INBOX, path |-> Name_INBOX, flags |-> {},
        specialUse |-> "undefined"] >>

\* setupConnectionMaintenance: the close handler is registered, `running` is
\* bound (by value) and the keep-alive loop starts its first wait.
SetUpMaintenance(a, c) ==
    /\ client' = [client EXCEPT ![a] = [c EXCEPT !.onClose = TRUE]]
    /\ maintRunning' = [maintRunning EXCEPT ![a] = TRUE]
    /\ ka' = [ka EXCEPT ![a] = "sleep"]

\* The folder loop of connectAndSync after folder fi: the next folder's
\* backfill, or connection maintenance after the last one.
ContinueAfter(a, fi, folders, c) ==
    IF fi < Len(folders)
    THEN /\ sup' = [sup EXCEPT ![a] = [pc |-> "bf_lock", folders |-> folders,
                                       fi |-> fi + 1, mi |-> 0, n |-> 0]]
         /\ client' = [client EXCEPT ![a] = c]
         /\ UNCHANGED <<maintRunning, ka>>
    ELSE /\ sup' = [sup EXCEPT ![a] = [pc |-> "done", folders |-> folders,
                                       fi |-> fi, mi |-> 0, n |-> 0]]
         /\ SetUpMaintenance(a, c)

\* client.list() resolves.
ListOk(a) ==
    /\ sup[a].pc = "list"
    /\ client[a].state = "open"
    /\ ContinueAfter(a, 0, ProcessedFolders(a), client[a])
    /\ UNCHANGED <<accounts, probe, createStatus, orch, gen, monRunning, timer, live, waiting, mailbox,
                   events, pipeVars>>

\* client.list() rejects (always on a closed connection): caught, INBOX alone.
ListFail(a) ==
    /\ sup[a].pc = "list"
    /\ \/ client[a].state # "open" /\ UNCHANGED events
       \/ client[a].state = "open" /\ CanDisturb /\ Disturb
    /\ ContinueAfter(a, 0, FallbackFolders, client[a])
    /\ UNCHANGED <<accounts, probe, createStatus, orch, gen, monRunning, timer, live, waiting, mailbox,
                   pipeVars>>

(***************************************************************************)
(* processFolderEmails                                                     *)
(***************************************************************************)
\* Variant of AfterFolderFailure: the error leaves connectAndSync.
AfterFolderFailureAborts == "failed"

\* Where connectAndSync goes when a folder's lock, fetch or pipeline has
\* failed: processFolderEmails catches the error and returns.
AfterFolderFailure == "bf_done"

FolderIndex(a, path) ==
    CHOOSE i \in 1..Len(ServerFolders[a]) : ServerFolders[a][i].path = path

\* The messages the server holds in a folder of an account.
MailboxOf(a, path) == mailbox[a][FolderIndex(a, path)]

\* Variant of Release: the lock is kept.
ReleaseNothing(c, who) == c

\* lock.release() by the holder `who`.
Release(c, who) == IF c.lock = who THEN [c EXCEPT !.lock = "free"] ELSE c

\* getMailboxLock resolves; the fetch of the window is issued.
BfLockOk(a) ==
    /\ sup[a].pc = "bf_lock"
    /\ client[a].state = "open"
    /\ client[a].lock = "free"
    /\ client' = [client EXCEPT ![a].lock = "bf"]
    /\ sup' = [sup EXCEPT ![a].pc = "bf_fetch", ![a].mi = 0,
                          ![a].n = Len(MailboxOf(a, sup[a].folders[sup[a].fi].path))]
    /\ UNCHANGED <<accounts, probe, createStatus, orch, gen, monRunning, maintRunning, ka, timer, live,
                   waiting, mailbox, events, pipeVars>>

\* getMailboxLock rejects (always on a closed connection): caught and logged
\* by processFolderEmails.
BfLockFail(a) ==
    /\ sup[a].pc = "bf_lock"
    /\ \/ client[a].state # "open" /\ UNCHANGED events
       \/ client[a].state = "open" /\ CanDisturb /\ Disturb
    /\ sup' = [sup EXCEPT ![a].pc = AfterFolderFailure]
    /\ UNCHANGED <<accounts, probe, createStatus, orch, connVars, mailbox, pipeVars>>

\* The fetch yields the next message: handleEmail is called on it.
BfFetchNext(a) ==
    /\ sup[a].pc = "bf_fetch"
    /\ client[a].state = "open"
    /\ sup[a].mi < sup[a].n
    /\ LET folder == sup[a].folders[sup[a].fi]
           msg == MailboxOf(a, folder.path)[sup[a].mi + 1]
       IN h' = [h EXCEPT ![a]["bf"] = HandleEmailStart(msg, folder, completed)]
    /\ sup' = [sup EXCEPT ![a].pc = "bf_handle"]
    /\ UNCHANGED <<accounts, probe, createStatus, orch, connVars, mailbox, events, store, writes,
                   completed>>

\* The fetch is exhausted: the lock is released in the finally block.
BfFetchEnd(a) ==
    /\ sup[a].pc = "bf_fetch"
    /\ client[a].state = "open"
    /\ sup[a].mi = sup[a].n
    /\ sup' = [sup EXCEPT ![a].pc = "bf_done"]
    /\ client' = [client EXCEPT ![a] = Release(@, "bf")]
    /\ UNCHANGED <<accounts, probe, createStatus, orch, gen, monRunning, maintRunning, ka, timer, live,
                   waiting, mailbox, events, pipeVars>>

\* The fetch fails (always on a closed connection): finally releases the
\* lock, the outer catch logs the error.
BfFetchFail(a) ==
    /\ sup[a].pc = "bf_fetch"
    /\ \/ client[a].state # "open" /\ UNCHANGED events
       \/ client[a].state = "open" /\ CanDisturb /\ Disturb
    /\ sup' = [sup EXCEPT ![a].pc = AfterFolderFailure]
    /\ client' = [client EXCEPT ![a] = Release(@, "bf")]
    /\ UNCHANGED <<accounts, probe, createStatus, orch, gen, monRunning, maintRunning, ka, timer, live,
                   waiting, mailbox, pipeVars>>

\* handleEmail has returned: the loop asks the fetch for the next message.
BfHandled(a) ==
    /\ sup[a].pc = "bf_handle"
    /\ h[a]["bf"].pc = "returned"
    /\ sup' = [sup EXCEPT ![a].pc = "bf_fetch", ![a].mi = @ + 1]
    /\ h' = [h EXCEPT ![a]["bf"] = IdleTask]
    /\ UNCHANGED <<accounts, probe, createStatus, orch, connVars, mailbox, events, store, writes,
                   completed>>

\* handleEmail has thrown: the loop is left, finally releases the lock and
\* the outer catch logs the error.
BfHandleThrew(a) ==
    /\ sup[a].pc = "bf_handle"
    /\ h[a]["bf"].pc = "threw"
    /\ sup' = [sup EXCEPT ![a].pc = AfterFolderFailure]
    /\ client' = [client EXCEPT ![a] = Release(@, "bf")]
    /\ h' = [h EXCEPT ![a]["bf"] = IdleTask]
    /\ UNCHANGED <<accounts, probe, createStatus, orch, gen, monRunning, maintRunning, ka, timer, live,
                   waiting, mailbox, events, store, writes, completed>>

\* Variant of Monitored: every folder gets a handler.
MonitoredAlways(folder) == TRUE

\* `folder.name === 'INBOX'`: the folder gets an 'exists' handler.
Monitored(folder) == folder.name = Name_INBOX

\* setupRealtimeMonitoring: the 'exists' handler is registered for the folder.
WithMonitoring(c, folder) == [c EXCEPT !.onExists = TRUE, !.monFolder = folder]

\* processFolderEmails has resolved: monitoring for INBOX, then the next
\* folder or connection maintenance.
AfterFolder(a) ==
    /\ sup[a].pc = "bf_done"
    /\ LET folder == sup[a].folders[sup[a].fi]
           isInbox == Monitored(folder)
       IN /\ ContinueAfter(a, sup[a].fi, sup[a].folders,
                           IF isInbox THEN WithMonitoring(client[a], folder)
                                      ELSE client[a])
          /\ monRunning' = IF isInbox THEN [monRunning EXCEPT ![a] = TRUE]
                                      ELSE monRunning
    /\ UNCHANGED <<accounts, probe, createStatus, orch, gen, timer, live, waiting, mailbox, events,
                   pipeVars>>

(***************************************************************************)
(* setupConnectionMaintenance: close handler, reconnect timer, keep-alive  *)
(***************************************************************************)
\* The 'close' handler: `running` (as bound in setupConnectionMaintenance)
\* is cleared and one timer is set for connectAndSync(account).
OnClose(a) ==
    /\ maintRunning' = [maintRunning EXCEPT ![a] = FALSE]
    /\ timer' = [timer EXCEPT ![a] = @ + 1]

\* The connection of account a closes, c being its client: the client emits
\* 'close' once, to the handlers registered by then. Pending lock requests
\* of the client are rejected.
DoClose(a, c) ==
    /\ client' = [client EXCEPT ![a] = [c EXCEPT !.state = "closed"]]
    /\ waiting' = [waiting EXCEPT ![a] = 0]
    /\ IF c.onClose THEN OnClose(a) ELSE UNCHANGED <<maintRunning, timer>>

\* The protocol client reports the closure of an open connection.
CloseConn(a) ==
    /\ client[a].state = "open"
    /\ CanDisturb
    /\ Disturb
    /\ DoClose(a, client[a])
    /\ UNCHANGED <<accounts, probe, createStatus, orch, sup, gen, monRunning, ka, live, mailbox,
                   pipeVars>>

\* The reconnect timer fires: connectAndSync(account) is called again (its
\* promise is not awaited), with a new client.
TimerFire(a) ==
    /\ timer[a] > 0
    /\ timer' = [timer EXCEPT ![a] = @ - 1]
    /\ sup' = [sup EXCEPT ![a] = [IdleSup EXCEPT !.pc = "connect"]]
    /\ client' = [client EXCEPT ![a] = NewClient]
    /\ gen' = [gen EXCEPT ![a] = @ + 1]
    /\ ka' = [ka EXCEPT ![a] = "off"]
    /\ waiting' = [waiting EXCEPT ![a] = 0]
    /\ UNCHANGED <<accounts, probe, createStatus, orch, monRunning, maintRunning, live, mailbox, events,
                   pipeVars>>

\* One round of the keep-alive loop, the wait and the noop() it issues:
\* noop() resolves, the loop tests `running` and waits again.
KaNoopOk(a) ==
    /\ ka[a] = "sleep"
    /\ client[a].state = "open"
    /\ ka' = [ka EXCEPT ![a] = IF maintRunning[a] THEN "sleep" ELSE "off"]
    /\ UNCHANGED <<accounts, probe, createStatus, orch, sup, client, gen, monRunning, maintRunning,
                   timer, live, waiting, mailbox, events, pipeVars>>

\* One round of the keep-alive loop whose noop() rejects (always on a closed
\* connection): client.close() and the loop ends. close() on a client that
\* is already closed emits nothing.
KaNoopFail(a) ==
    /\ ka[a] = "sleep"
    /\ ka' = [ka EXCEPT ![a] = "off"]
    /\ \/ /\ client[a].state # "open"
          /\ UNCHANGED <<client, waiting, maintRunning, timer, events>>
       \/ /\ client[a].state = "open"
          /\ CanDisturb
          /\ Disturb
          /\ DoClose(a, client[a])
    /\ UNCHANGED <<accounts, probe, createStatus, orch, sup, gen, monRunning, live, mailbox, pipeVars>>

(***************************************************************************)
(* setupRealtimeMonitoring: the 'exists' handler                           *)
(***************************************************************************)
\* The handler's first statement, `if (!running) return`, on the `running`
\* bound in setupRealtimeMonitoring: the handler goes on to request the lock.
HandlerProceeds(a) == monRunning[a]

\* A message arrives in the INBOX of an account; an open client with a
\* registered handler emits 'exists'.
Arrive(a) ==
    /\ a \in accounts
    /\ CanDisturb
    /\ Disturb
    /\ \E msg \in ArrivalMsgs :
          mailbox' = [mailbox EXCEPT ![a][FolderIndex(a, Name_INBOX)] = Append(@, msg)]
    /\ waiting' = IF client[a].state = "open" /\ client[a].onExists /\ HandlerProceeds(a)
                  THEN [waiting EXCEPT ![a] = @ + 1]
                  ELSE waiting
    /\ UNCHANGED <<accounts, probe, createStatus, orch, sup, client, gen, monRunning, maintRunning, ka,
                   timer, live, pipeVars>>

\* An 'exists' event is delivered on a client whose connection has closed,
\* before the reconnect.
ExistsAfterClose(a) ==
    /\ client[a].state = "closed"
    /\ client[a].onExists
    /\ waiting[a] = 0
    /\ HandlerProceeds(a)
    /\ waiting' = [waiting EXCEPT ![a] = 1]
    /\ UNCHANGED <<accounts, probe, createStatus, orch, sup, client, gen, monRunning, maintRunning, ka,
                   timer, live, mailbox, events, pipeVars>>

\* getMailboxLock resolves for a waiting handler; status() is issued.
LiveLockOk(a) ==
    /\ waiting[a] > 0
    /\ client[a].state = "open"
    /\ client[a].lock = "free"
    /\ live[a].pc = "idle"
    /\ waiting' = [waiting EXCEPT ![a] = @ - 1]
    /\ client' = [client EXCEPT ![a].lock = "live"]
    /\ live' = [live EXCEPT ![a] = [pc |-> "status", gen |-> gen[a], uid |-> 0,
                                    folder |-> client[a].monFolder]]
    /\ UNCHANGED <<accounts, probe, createStatus, orch, sup, gen, monRunning, maintRunning, ka, timer,
                   mailbox, events, pipeVars>>

\* getMailboxLock rejects (always on a closed connection): the handler's
\* promise rejects, nothing was locked.
LiveLockFail(a) ==
    /\ waiting[a] > 0
    /\ \/ client[a].state # "open" /\ UNCHANGED events
       \/ client[a].state = "open" /\ CanDisturb /\ Disturb
    /\ waiting' = [waiting EXCEPT ![a] = @ - 1]
    /\ UNCHANGED <<accounts, probe, createStatus, orch, sup, client, gen, monRunning, maintRunning, ka,
                   timer, live, mailbox, pipeVars>>

\* The handler's client is still the account's open client.
Usable(a) == live[a].gen = gen[a] /\ client[a].state = "open"

\* The handler ends: finally releases its lock.
LiveEnd(a) ==
    /\ live' = [live EXCEPT ![a] = IdleLive]
    /\ client' = IF live[a].gen = gen[a]
                 THEN [client EXCEPT ![a] = Release(@, "live")]
                 ELSE client

\* Variant of LatestUid: the oldest message of the mailbox.
LatestUidFirst(uidNext) == IF uidNext > 1 THEN 1 ELSE 0

\* `status.uidNext - 1`: the uid of the latest message of the mailbox.
LatestUid(uidNext) == uidNext - 1

\* status() resolves with uidNext: the latest message is fetched, unless
\* uidNext - 1 is 0.
LiveStatusOk(a) ==
    /\ live[a].pc = "status"
    /\ Usable(a)
    /\ LET uidNext == Len(MailboxOf(a, live[a].folder.path)) + 1
           latestUid == LatestUid(uidNext)
       IN IF latestUid = 0
          THEN LiveEnd(a)
          ELSE /\ live' = [live EXCEPT ![a].pc = "fetch", ![a].uid = latestUid]
               /\ UNCHANGED client
    /\ UNCHANGED <<accounts, probe, createStatus, orch, sup, gen, monRunning, maintRunning, ka, timer,
                   waiting, mailbox, events, pipeVars>>

\* status() resolves without a numeric uidNext, which no regular server
\* answer does: the handler returns.
LiveStatusNoUidNext(a) ==
    /\ live[a].pc = "status"
    /\ Usable(a)
    /\ CanDisturb
    /\ Disturb
    /\ LiveEnd(a)
    /\ UNCHANGED <<accounts, probe, createStatus, orch, sup, gen, monRunning, maintRunning,
                   ka, timer, waiting, mailbox, pipeVars>>

\* status() or the fetch rejects (always on a closed connection).
LiveCallFail(a) ==
    /\ live[a].pc \in {"status", "fetch"}
    /\ \/ ~Usable(a) /\ UNCHANGED events
       \/ Usable(a) /\ CanDisturb /\ Disturb
    /\ LiveEnd(a)
    /\ UNCHANGED <<accounts, probe, createStatus, orch, sup, gen, monRunning, maintRunning, ka, timer,
                   waiting, mailbox, pipeVars>>

\* The fetch yields the message with the latest uid: handleEmail is called.
LiveFetchOk(a) ==
    /\ live[a].pc = "fetch"
    /\ Usable(a)
    /\ live' = [live EXCEPT ![a].pc = "handle"]
    /\ h' = [h EXCEPT ![a]["live"] =
                HandleEmailStart(MailboxOf(a, live[a].folder.path)[live[a].uid],
                                 live[a].folder, completed)]
    /\ UNCHANGED <<accounts, probe, createStatus, orch, sup, client, gen, monRunning, maintRunning, ka,
                   timer, waiting, mailbox, events, store, writes, completed>>

\* handleEmail has returned or thrown: the handler ends either way.
LiveHandled(a) ==
    /\ live[a].pc = "handle"
    /\ h[a]["live"].pc \in {"returned", "threw"}
    /\ h' = [h EXCEPT ![a]["live"] = IdleTask]
    /\ LiveEnd(a)
    /\ UNCHANGED <<accounts, probe, createStatus, orch, sup, gen, monRunning, maintRunning, ka, timer,
                   waiting, mailbox, events, store, writes, completed>>

(***************************************************************************)
(* The engine                                                              *)
(***************************************************************************)
Next ==
    \/ StartAllLaunch
    \/ StartAllFail
    \/ \E a \in Accounts :
          \/ ConnectOk(a) \/ ConnectFail(a) \/ ListOk(a) \/ ListFail(a)
          \/ BfLockOk(a) \/ BfLockFail(a) \/ BfFetchNext(a) \/ BfFetchEnd(a)
          \/ BfFetchFail(a) \/ BfHandled(a) \/ BfHandleThrew(a) \/ AfterFolder(a)
          \/ CloseConn(a) \/ TimerFire(a) \/ KaNoopOk(a) \/ KaNoopFail(a)
          \/ Arrive(a) \/ ExistsAfterClose(a)
          \/ LiveLockOk(a) \/ LiveLockFail(a) \/ LiveStatusOk(a)
          \/ LiveStatusNoUidNext(a) \/ LiveCallFail(a) \/ LiveFetchOk(a)
          \/ LiveHandled(a)
    \/ \E a \in Accounts, w \in Who :
          \/ HGetFound(a, w) \/ HGetNotFound(a, w) \/ HGetError(a, w)
          \/ HClassifyOk(a, w) \/ HClassifyFail(a, w)
          \/ HIndexOk(a, w) \/ HIndexFail(a, w)
          \/ HSlackOk(a, w) \/ HSlackFail(a, w)
          \/ HWebhookOk(a, w) \/ HWebhookFail(a, w)

Spec == Init /\ [][Next]_vars

\* The steps of the connectAndSync invocation of an account.
SupStep(a) ==
    \/ ConnectOk(a) \/ ConnectFail(a) \/ ListOk(a) \/ ListFail(a)
    \/ BfLockOk(a) \/ BfLockFail(a) \/ BfFetchNext(a) \/ BfFetchEnd(a)
    \/ BfFetchFail(a) \/ BfHandled(a) \/ BfHandleThrew(a) \/ AfterFolder(a)

\* The steps of the reconnect timer and of the keep-alive loop of an account.
MaintStep(a) == TimerFire(a) \/ KaNoopOk(a) \/ KaNoopFail(a)

\* The answer to the lock request of an 'exists' handler invocation.
LiveLockStep(a) == LiveLockOk(a) \/ LiveLockFail(a)

\* The steps of the 'exists' handler invocation that holds the lock.
LiveStep(a) ==
    \/ LiveStatusOk(a) \/ LiveStatusNoUidNext(a) \/ LiveCallFail(a)
    \/ LiveFetchOk(a) \/ LiveHandled(a)

\* The steps of one handleEmail invocation.
PipeStep(a, w) ==
    \/ HGetFound(a, w) \/ HGetNotFound(a, w) \/ HGetError(a, w)
    \/ HClassifyOk(a, w) \/ HClassifyFail(a, w)
    \/ HIndexOk(a, w) \/ HIndexFail(a, w)
    \/ HSlackOk(a, w) \/ HSlackFail(a, w)
    \/ HWebhookOk(a, w) \/ HWebhookFail(a, w)

\* The steps of one account's tasks: every continuation that is ready runs,
\* every external call is answered and every timer fires.
AccountStep(a) ==
    \/ SupStep(a) \/ MaintStep(a) \/ LiveLockStep(a) \/ LiveStep(a)
    \/ \E w \in Who : PipeStep(a, w)

\* The engine on Node's event loop: no task's ready continuation waits
\* forever, and every call a task awaits is answered.
FairSpec ==
    /\ Spec
    /\ WF_vars(StartAllLaunch \/ StartAllFail)
    /\ \A a \in Accounts :
          /\ WF_vars(SupStep(a))
          /\ WF_vars(MaintStep(a))
          /\ WF_vars(LiveLockStep(a))
          /\ WF_vars(LiveStep(a))
          /\ \A w \in Who : WF_vars(PipeStep(a, w))

(***************************************************************************)
(* The folder classifier on its own: determineSpecialUse applied to one    *)
(* folder name and flag list.                                              *)
(***************************************************************************)
Name_inbox_lower == <<"i", "n", "b", "o", "x">>
Name_Gmail_Sent_Mail == <<"[", "G", "m", "a", "i", "l", "]", "/", "S", "e", "n", "t", " ", "M", "a", "i", "l">>
Name_Drafts == <<"D", "r", "a", "f", "t", "s">>
Name_JUNK == <<"J", "U", "N", "K">>
Name_Spam == <<"S", "p", "a", "m">>
Name_Trash == <<"T", "r", "a", "s", "h">>
Name_Recycle_Bin == <<"R", "e", "c", "y", "c", "l", "e", " ", "B", "i", "n">>
Name_Important == <<"I", "m", "p", "o", "r", "t", "a", "n", "t">>
Name_Starred == <<"S", "t", "a", "r", "r", "e", "d">>
Name_Gmail_All_Mail == <<"[", "G", "m", "a", "i", "l", "]", "/", "A", "l", "l", " ", "M", "a", "i", "l">>
Name_Work == <<"W", "o", "r", "k">>
Name_Sent_Drafts == <<"S", "e", "n", "t", " ", "D", "r", "a", "f", "t", "s">>
Name_Trash_Inbox == <<"T", "r", "a", "s", "h", " ", "I", "n", "b", "o", "x">>
Name_empty == <<>>

\* The folder names the classifier is called on.
FolderNames ==
    {Name_INBOX, Name_Sent, Name_inbox_lower, Name_Gmail_Sent_Mail, Name_Drafts, Name_JUNK,
     Name_Spam, Name_Trash, Name_Recycle_Bin, Name_Important,
     Name_Starred, Name_Gmail_All_Mail, Name_Work, Name_Sent_Drafts,
     Name_Trash_Inbox, Name_empty}

\* The protocol flags a folder may carry; "\\Noselect" is none the
\* classifier knows.
FolderFlags ==
    {"\\Inbox", "\\Sent", "\\Drafts", "\\Junk", "\\Trash", "\\Important", "\\All",
     "\\Noselect"}

\* How many flags a folder carries at most.
MaxFlags == 2

FolderInit ==
    /\ accounts = {}
    /\ EngineInit
    /\ \E n \in FolderNames, f \in SUBSET FolderFlags :
          /\ Cardinality(f) <= MaxFlags
          /\ probe = [fn |-> "determineSpecialUse", folderName |-> n, flags |-> f,
                      called |-> FALSE, result |-> "undefined"]

\* The call returns.
ClassifyFolder ==
    /\ probe.fn = "determineSpecialUse"
    /\ ~probe.called
    /\ probe' = [probe EXCEPT !.called = TRUE,
                              !.result = determineSpecialUse(probe.folderName, probe.flags)]
    /\ UNCHANGED <<accounts, orch, createStatus, sup, connVars, mailbox, events, pipeVars>>

FolderNext == ClassifyFolder

FolderSpec == FolderInit /\ [][FolderNext]_vars

(***************************************************************************)
(* The fingerprint on its own: the document ids handleEmail computes for   *)
(* two raw message identifiers.                                            *)
(***************************************************************************)
\* Normalized identifiers: no angle bracket, no white space at either end.
Cores ==
    {<<"a">>, <<"b">>, <<"a", "b">>, <<"a", " ", "b">>, <<"a", "@", "x">>}

\* How many white-space characters a raw identifier carries at most at each
\* place where it carries any.
MaxPad == 1

\* n copies of the character c.
Pad(c, n) == [i \in 1..n |-> c]

\* The ways a server may write an identifier: white space outside the angle
\* brackets, the brackets or none, white space inside them.
Decorations ==
    [outer : 0..MaxPad, brackets : BOOLEAN, inner : 0..MaxPad, ws : {" ", "\t"}]

\* A normalized identifier as a raw one.
Decorate(core, d) ==
    LET open == IF d.brackets THEN <<"<">> ELSE <<>>
        close == IF d.brackets THEN <<">">> ELSE <<>>
    IN Pad(d.ws, d.outer) \o open \o Pad(d.ws, d.inner) \o core
       \o Pad(d.ws, d.inner) \o close \o Pad(d.ws, d.outer)

FingerprintInit ==
    /\ accounts = {}
    /\ EngineInit
    /\ \E c1, c2 \in Cores, d1, d2 \in Decorations :
          probe = [fn |-> "messageId", core1 |-> c1, core2 |-> c2,
                   raw1 |-> Decorate(c1, d1), raw2 |-> Decorate(c2, d2),
                   called |-> FALSE, id1 |-> <<>>, id2 |-> <<>>]

\* handleEmail computes the document id of both identifiers.
ComputeIds ==
    /\ probe.fn = "messageId"
    /\ ~probe.called
    /\ probe' = [probe EXCEPT !.called = TRUE,
                              !.id1 = MessageId(probe.raw1),
                              !.id2 = MessageId(probe.raw2)]
    /\ UNCHANGED <<accounts, orch, createStatus, sup, connVars, mailbox, events, pipeVars>>

FingerprintNext == ComputeIds

FingerprintSpec == FingerprintInit /\ [][FingerprintNext]_vars

(***************************************************************************)
(* Properties                                                              *)
(***************************************************************************)
Tasks == {h[a][w] : a \in Accounts, w \in Who}

\* C1: idempotence of handleEmail. A call that starts after another call on
\* the same message identifier has returned is a no-op: it never gets past
\* the existence check, so it classifies nothing, writes nothing and
\* notifies nobody; and the store holds exactly one document for every
\* identifier whose call has returned.
C1_SecondCallIsNoOp ==
    /\ \A t \in Tasks :
          t.second => /\ t.pc \in {"get", "returned", "threw"}
                      /\ t.label = "none"
                      /\ ~t.wrote
                      /\ t.slack = "none" /\ t.webhook = "none"
    /\ \A id \in completed : Cardinality({d \in store : d.id = id}) = 1

\* A second call on an identifier has returned.
C1_Witness == \E t \in Tasks : t.second /\ t.pc = "returned"

\* C2: the store holds at most one document per normalized message
\* identifier, and every document's id is the fingerprint of its messageId.
C2_OneDocPerMessageId ==
    /\ \A d1, d2 \in store : d1.messageId = d2.messageId => d1 = d2
    /\ \A d \in store : d.id = Fingerprint(d.messageId)

\* The same message has been written from two places and the store holds
\* one document.
C2_Witness ==
    \E d \in store : CopiesIn(d.id, writes) >= 2 /\ Cardinality(store) = 1

\* C3: every document id is written to the index store exactly once over
\* the whole run.
C3_OneWritePerId == \A id \in BagToSet(writes) : CopiesIn(id, writes) = 1

\* C4: an 'exists' event delivered after the connection has closed is
\* ignored: no handler invocation requests the mailbox lock of a closed
\* client (the requests pending at the closure are rejected by it).
C4_EventsAfterCloseIgnored ==
    \A a \in Accounts : client[a].state = "closed" => waiting[a] = 0

\* C5: every closure of an account's connection schedules exactly one
\* reconnect for that account.
C5_OneReconnectPerClosure ==
    [][\A a \in Accounts :
          (client[a].state = "open" /\ client'[a].state = "closed")
              => timer'[a] = timer[a] + 1]_vars

RECURSIVE FetchOrder(_, _)
\* The messages of an account from folder i on, in listing and fetch order.
FetchOrder(b, i) ==
    IF i > Len(ServerFolders[b]) THEN <<>>
    ELSE [k \in 1..Len(InitialMailbox[b][i]) |->
             [folder |-> ProcessedFolders(b)[i], msg |-> InitialMailbox[b][i][k]]]
         \o FetchOrder(b, i + 1)

\* What the undisturbed backfill of account b alone stores: one document per
\* identifier, built from its first occurrence.
ExpectedDocs(b) ==
    LET f == FetchOrder(b, 1) IN
    {EmailDoc(b, f[k].folder, MessageIdClean(f[k].msg.messageId),
              Fingerprint(f[k].msg.messageId), "none") :
        k \in {k \in 1..Len(f) :
                  /\ ~LacksId(f[k].msg)
                  /\ \A j \in 1..(k - 1) :
                        LacksId(f[j].msg)
                        \/ Fingerprint(f[j].msg.messageId) # Fingerprint(f[k].msg.messageId)}}

\* Account b has nothing left to do.
Quiet(b) ==
    /\ sup[b].pc = "done"
    /\ live[b].pc = "idle" /\ waiting[b] = 0
    /\ \A w \in Who : h[b][w].pc = "idle"

\* C6: fault isolation. When startAll has returned every configured account
\* has been started; an account whose supervisor is still at work can always
\* take a step, whatever the other account does; and when the connect of one
\* account has failed (and nothing else has), the other account's backfill
\* ends with the documents it stores when it is the only configured account.
C6_FaultIsolation ==
    /\ orch = "done" => \A a \in accounts : sup[a].pc # "idle"
    /\ \A b \in accounts :
          (accounts = {b} /\ events = 0 /\ Quiet(b)) => store = ExpectedDocs(b)
    /\ \A a, b \in accounts :
          (a # b /\ sup[a].pc = "failed") =>
              /\ sup[b].pc \notin {"idle", "done", "failed"} => ENABLED AccountStep(b)
              /\ (events = 1 /\ Quiet(b)) => store = ExpectedDocs(b)

\* One account's connect has failed and the other one has finished its
\* backfill with its documents stored.
C6_Witness ==
    \E a, b \in accounts :
        /\ a # b /\ sup[a].pc = "failed" /\ events = 1
        /\ Quiet(b) /\ store = ExpectedDocs(b) /\ store # {}

\* C7: after a failed connect attempt another attempt for the same account
\* is eventually made.
C7_ConnectFailureRetried ==
    \A a \in Accounts : (sup[a].pc = "failed") ~> (sup[a].pc = "connect")

\* C8: a failure of the classification service never aborts indexing. The
\* call goes on to the index write with the fallback label; it throws only
\* if that write fails, and otherwise its document is in the store.
C8_ClassifierFailureStillIndexes ==
    \A t \in Tasks :
        t.clsFailed =>
            /\ t.label = FallbackLabel
            /\ \/ t.pc = "index"
               \/ t.pc = "threw" /\ t.err = "index"
               \/ /\ t.pc \in {"slack", "webhook", "returned"}
                  /\ t.wrote
                  /\ EsHas(store, t.id)

\* A call whose classification failed has written its document and returned.
C8_Witness ==
    \E t \in Tasks : t.clsFailed /\ t.pc = "returned" /\ t.wrote /\ EsHas(store, t.id)

\* C9: the document written by a call carries the category resolved for it
\* (the classifier's label, or the fallback label).
C9_DocCarriesCategory ==
    \A t \in Tasks :
        t.wrote => \E d \in store : d.id = t.id /\ d.aiCategory = t.label

\* C10: the notifier calls are independent: once a call has written an
\* Interested message and returned, both the chat notifier and the webhook
\* sink have been invoked, whether or not one of them failed.
C10_NotifiersIndependent ==
    \A t \in Tasks :
        (t.pc = "returned" /\ t.wrote /\ t.label = "Interested")
            => t.slack # "none" /\ t.webhook # "none"

\* C11: notification failures are swallowed. A call whose chat notifier or
\* webhook sink has failed returns normally, the document it wrote is still
\* in the store under its id, and each notifier was invoked once, no more.
C11_NotifierFailureSwallowed ==
    \A t \in Tasks :
        (t.slack = "failed" \/ t.webhook = "failed") =>
            /\ t.pc = "returned" /\ t.err = "none"
            /\ t.wrote
            /\ \E d \in store : d.id = t.id /\ d.messageId = t.clean
            /\ t.nSlack = 1 /\ t.nWebhook <= 1

\* A call has returned after its webhook sink failed, its document stored.
C11_Witness ==
    \E t \in Tasks :
        /\ t.webhook = "failed" /\ t.pc = "returned"
        /\ \E d \in store : d.id = t.id

\* C12: notifications depend on the category. A call that wrote an
\* Interested message and whose notifiers both succeeded has invoked each
\* of them exactly once; a call whose label is any other one, or that found
\* the message already indexed, has invoked neither.
C12_NotifyOnlyInterested ==
    \A t \in Tasks :
        /\ (t.pc = "returned" /\ t.wrote /\ t.label = "Interested"
               /\ t.slack # "failed" /\ t.webhook # "failed")
             => t.nSlack = 1 /\ t.nWebhook = 1
        /\ (t.label # "Interested" \/ ~t.wrote)
             => t.nSlack = 0 /\ t.nWebhook = 0

\* An Interested message has been written and both notifiers invoked once.
C12_Witness ==
    \E t \in Tasks :
        /\ t.pc = "returned" /\ t.wrote /\ t.label = "Interested"
        /\ t.slack = "ok" /\ t.webhook = "ok" /\ t.nSlack = 1 /\ t.nWebhook = 1

\* The special-use tags.
SpecialUseTags ==
    {"inbox", "sent", "drafts", "spam", "trash", "important", "starred", "archive",
     "custom"}

\* The name keywords in their fixed order, each with its tag.
NameKeywords ==
    << <<Kw_inbox, "inbox">>, <<Kw_sent, "sent">>, <<Kw_draft, "drafts">>,
       <<Kw_spam, "spam">>, <<Kw_junk, "spam">>, <<Kw_trash, "trash">>,
       <<Kw_bin, "trash">>, <<Kw_important, "important">>,
       <<Kw_starred, "starred">>, <<Kw_all_mail, "archive">> >>

\* The flags in their fixed order, each with its tag.
FlagTags ==
    << <<"\\Inbox", "inbox">>, <<"\\Sent", "sent">>, <<"\\Drafts", "drafts">>,
       <<"\\Junk", "spam">>, <<"\\Spam", "spam">>, <<"\\Trash", "trash">>,
       <<"\\Important", "important">>, <<"\\All", "archive">> >>

\* The keywords a name holds, whatever its case, and the listed flags a
\* flag list holds, by their positions in the two orders.
NameMatches(n) == {i \in 1..Len(NameKeywords) : Includes(ToLowerCase(n), NameKeywords[i][1])}
FlagMatches(f) == {i \in 1..Len(FlagTags) : FlagTags[i][1] \in f}
First(S) == CHOOSE i \in S : \A j \in S : i <= j

\* C13: the folder classifier. Its result is always a special-use tag; the
\* first keyword of the fixed order that the name holds (in any case)
\* decides it, whatever the flags; the first listed flag decides it only
\* when the name holds no keyword; it is custom when neither matches.
\* "[Gmail]/Sent Mail" gives sent; an unrecognized name flagged \Junk gives
\* spam when it carries none of the flags listed before \Junk.
C13_FolderClassifier ==
    (probe.fn = "determineSpecialUse" /\ probe.called) =>
        LET n == probe.folderName
            f == probe.flags
        IN /\ probe.result \in SpecialUseTags
           /\ NameMatches(n) # {} => probe.result = NameKeywords[First(NameMatches(n))][2]
           /\ (NameMatches(n) = {} /\ FlagMatches(f) # {})
                 => probe.result = FlagTags[First(FlagMatches(f))][2]
           /\ (NameMatches(n) = {} /\ FlagMatches(f) = {}) => probe.result = "custom"
           /\ n = Name_Gmail_Sent_Mail => probe.result = "sent"
           /\ (NameMatches(n) = {} /\ "\\Junk" \in f
                  /\ f \cap {"\\Inbox", "\\Sent", "\\Drafts"} = {})
                 => probe.result = "spam"

\* A name holding a keyword was classified against a flag of another tag.
C13_Witness ==
    /\ probe.fn = "determineSpecialUse" /\ probe.called
    /\ probe.folderName = Name_Gmail_Sent_Mail /\ probe.flags = {"\\Junk"}
    /\ probe.result = "sent"

\* C13 as stated: every unrecognized name whose flags hold \Junk gives spam.
C13_JunkFlagGivesSpam ==
    (probe.fn = "determineSpecialUse" /\ probe.called) =>
        ((NameMatches(probe.folderName) = {} /\ "\\Junk" \in probe.flags)
            => probe.result = "spam")

\* C14: fingerprint stability. Two raw identifiers that are the same
\* normalized identifier written with different angle brackets and white
\* space around it get the same document id, and raw identifiers of
\* different normalized identifiers get different ids.
C14_FingerprintStable ==
    (probe.fn = "messageId" /\ probe.called) =>
        /\ probe.core1 = probe.core2 => probe.id1 = probe.id2
        /\ probe.core1 # probe.core2 => probe.id1 # probe.id2
        /\ probe.id1 = Sha1(probe.core1)

\* "<a>" and " a " have got the same id.
C14_Witness ==
    /\ probe.fn = "messageId" /\ probe.called
    /\ probe.raw1 = Str_a /\ probe.raw2 = Str_a_padded
    /\ probe.id1 = probe.id2

\* C15: a per-message failure never aborts a folder. When handleEmail has
\* thrown for a message of a folder's backfill and the fetch holds later
\* messages, the loop goes on to fetch the next one.
C15_MessageFailureKeepsFolder ==
    [][\A a \in Accounts :
          (/\ sup[a].pc = "bf_handle" /\ h[a]["bf"].pc = "threw"
           /\ sup[a].mi + 1 < sup[a].n
           /\ sup'[a] # sup[a])
              => sup'[a].pc = "bf_fetch" /\ sup'[a].mi = sup[a].mi + 1]_vars

\* connectAndSync is in its folder loop.
InFolderLoop(st) == st.pc \in {"bf_lock", "bf_fetch", "bf_handle", "bf_done"}

\* C16: a per-folder failure never aborts an account. A supervisor in its
\* folder loop stays with its folder, goes on to the next folder of the
\* discovered list, or, after the last folder, sets up connection
\* maintenance (close handler and keep-alive loop); it never ends otherwise.
C16_FolderFailureKeepsAccount ==
    [][\A a \in Accounts :
          (InFolderLoop(sup[a]) /\ sup'[a] # sup[a]) =>
              \/ InFolderLoop(sup'[a]) /\ sup'[a].fi = sup[a].fi
                    /\ sup'[a].pc # "bf_lock"
              \/ /\ sup[a].pc = "bf_done" /\ sup[a].fi < Len(sup[a].folders)
                 /\ sup'[a].pc = "bf_lock" /\ sup'[a].fi = sup[a].fi + 1
              \/ /\ sup[a].pc = "bf_done" /\ sup[a].fi = Len(sup[a].folders)
                 /\ sup'[a].pc = "done"
                 /\ client'[a].onClose /\ maintRunning'[a] /\ ka'[a] = "sleep"]_vars

\* The backfill of INBOX failed, the one of Sent stored its message and
\* connection maintenance is set up.
C16_Witness ==
    /\ sup["a1"].pc = "done" /\ client["a1"].onClose
    /\ accounts = {"a1"} /\ events >= 1
    /\ \E d \in store : d.account = "a1" /\ d.folder = Name_Sent

\* The mailbox lock of an account's client is held only by a task that is
\* inside its locked section.
LockHeldByWorker ==
    \A a \in Accounts :
        /\ client[a].lock = "bf" => sup[a].pc \in {"bf_fetch", "bf_handle"}
        /\ client[a].lock = "live" => live[a].pc # "idle" /\ live[a].gen = gen[a]

\* C17: guaranteed lock release. Whenever processFolderEmails or a live
\* handler has finished, on whatever path, its mailbox lock is not held any
\* more; and a lock that is held is eventually free again.
C17_LockReleased ==
    /\ []LockHeldByWorker
    /\ \A a \in Accounts : (client[a].lock # "free") ~> (client[a].lock = "free")

\* A backfill that failed after it had taken the lock has ended, messages
\* left unfetched, and the lock is free.
C17_Witness ==
    \E a \in Accounts :
        /\ sup[a].pc = "bf_done" /\ sup[a].mi < sup[a].n
        /\ client[a].state = "open" /\ client[a].lock = "free"

\* The backfill fetcher, and the live handler, of an account is inside its
\* fetch-and-process section.
BackfillInSection(a) == sup[a].pc \in {"bf_fetch", "bf_handle"}
LiveInSection(a) == live[a].pc \in {"status", "fetch", "handle"}

\* C18: mutual exclusion of the two fetch paths. For one account the
\* backfill fetcher and a live handler are never inside their
\* fetch-and-process sections at the same time, and each is inside it only
\* while it holds the mailbox lock of its client.
C18_FetchPathsExclusive ==
    \A a \in Accounts :
        /\ ~(BackfillInSection(a) /\ LiveInSection(a))
        /\ BackfillInSection(a) => client[a].lock = "bf"
        /\ (LiveInSection(a) /\ live[a].gen = gen[a]) => client[a].lock = "live"

\* C19: the live subscriber is attached for INBOX only and only after the
\* backfill of INBOX has finished. A client with an 'exists' handler has it
\* for INBOX, and a handler is registered only by the step that follows the
\* end of processFolderEmails for INBOX.
C19_MonitorInboxAfterBackfill ==
    /\ [](\A a \in Accounts :
             client[a].onExists =>
                 /\ client[a].monFolder.name = Name_INBOX
                 /\ client[a].monFolder.path = Name_INBOX
                 /\ sup[a].pc \in {"bf_lock", "bf_fetch", "bf_handle", "bf_done", "done"}
                 /\ \E k \in 1..Len(sup[a].folders) :
                       /\ sup[a].folders[k] = client[a].monFolder
                       /\ k < sup[a].fi \/ sup[a].pc = "done")
    /\ [][\A a \in Accounts :
             (~client[a].onExists /\ client'[a].onExists) =>
                 /\ sup[a].pc = "bf_done"
                 /\ sup[a].folders[sup[a].fi].name = Name_INBOX
                 /\ client'[a].monFolder = sup[a].folders[sup[a].fi]]_vars

\* An account with two folders is done: INBOX has a handler, Sent was
\* backfilled without one.
C19_Witness ==
    /\ sup["a1"].pc = "done" /\ Len(sup["a1"].folders) = 2
    /\ client["a1"].onExists /\ client["a1"].monFolder.name = Name_INBOX
    /\ events = 0

\* C20: the keep-alive failure path. When a probe of the keep-alive loop
\* fails the loop stops, the connection is closed, and a reconnect for the
\* account is scheduled as for a closure reported by the protocol client.
C20_ProbeFailureReconnects ==
    [][\A a \in Accounts :
          (ka[a] = "sleep" /\ ka'[a] = "off" /\ gen'[a] = gen[a]) =>
              client'[a].state = "closed" /\ timer'[a] > 0]_vars

\* C21: a message without a protocol message identifier is skipped. Its
\* handleEmail call returns at once: no existence check, no classification,
\* no write, no notification, no error; and the backfill loop goes on to
\* the next message of the folder.
C21_NoIdSkipped ==
    /\ [](\A t \in Tasks :
             (t.pc # "idle" /\ (~t.msg.hasId \/ t.msg.messageId = <<>>)) =>
                 /\ t.pc = "returned" /\ t.err = "none"
                 /\ t.nGet = 0 /\ t.label = "none" /\ ~t.wrote
                 /\ t.nSlack = 0 /\ t.nWebhook = 0)
    /\ [][\A a \in Accounts :
             (/\ sup[a].pc = "bf_handle" /\ ~h[a]["bf"].msg.hasId
              /\ sup'[a] # sup[a])
                 => sup'[a].pc = "bf_fetch" /\ sup'[a].mi = sup[a].mi + 1]_vars

\* The backfill is at the message that follows one without identifier.
C21_Witness ==
    \E a \in Accounts :
        /\ sup[a].pc = "bf_handle" /\ sup[a].mi = 2
        /\ ~MailboxOf(a, Name_INBOX)[2].hasId
        /\ h[a]["bf"].pc = "get"

\* C22: the dedup gate. A call leaves its existence check for the
\* classification exactly when the store has no document of its id (404),
\* returns when it has one, and throws on any other error; a call that
\* threw there has classified nothing, written nothing, notified nobody.
C22_DedupGateErrors ==
    /\ [](\A t \in Tasks :
             t.err = "get" =>
                 /\ t.pc = "threw"
                 /\ t.label = "none" /\ ~t.clsFailed /\ ~t.wrote
                 /\ t.nSlack = 0 /\ t.nWebhook = 0)
    /\ [][\A a \in Accounts, w \in Who :
             (h[a][w].pc = "get" /\ h'[a][w].pc # "get") =>
                 \/ h'[a][w].pc = "classify" /\ ~EsHas(store, h[a][w].id)
                 \/ h'[a][w].pc = "returned" /\ EsHas(store, h[a][w].id)
                 \/ h'[a][w].pc = "threw" /\ h'[a][w].err = "get"]_vars

\* An existence check has failed with another error and the call has thrown.
C22_Witness == \E t \in Tasks : t.err = "get" /\ t.pc = "threw" /\ t.nGet = 1

\* C23: ordering within an account. The folders of a backfill are the
\* listed ones in listing order and are taken one at a time, the next one
\* only when the previous folder's backfill has finished; within a folder
\* the messages go to the pipeline in the order of the fetch, one at a time,
\* the next one only when the pipeline of the previous one has returned.
C23_BackfillInOrder ==
    /\ [](\A a \in Accounts :
             /\ \A i \in 1..Len(sup[a].folders) :
                    sup[a].folders[i].path = ServerFolders[a][i].path
             /\ sup[a].pc = "bf_handle" =>
                    /\ h[a]["bf"].pc # "idle"
                    /\ h[a]["bf"].folder = sup[a].folders[sup[a].fi]
                    /\ h[a]["bf"].msg =
                           MailboxOf(a, sup[a].folders[sup[a].fi].path)[sup[a].mi + 1]
             /\ sup[a].pc # "bf_handle" => h[a]["bf"] = IdleTask)
    /\ [][\A a \in Accounts :
             /\ (sup'[a].fi # sup[a].fi /\ sup'[a].fi # 0) =>
                    /\ sup'[a].fi = sup[a].fi + 1
                    /\ sup[a].pc \in {"list", "bf_done"}
                    /\ sup'[a].pc = "bf_lock" /\ sup'[a].mi = 0
             /\ (sup'[a].mi # sup[a].mi /\ sup'[a].mi # 0) =>
                    /\ sup'[a].mi = sup[a].mi + 1
                    /\ sup'[a].fi = sup[a].fi
                    /\ sup[a].pc = "bf_handle"
                    /\ h[a]["bf"].pc = "returned"]_vars

\* The first folder of two has been backfilled and a message of the second
\* one is in the pipeline.
C23_Witness ==
    \E a \in Accounts :
        /\ sup[a].fi = 2 /\ sup[a].pc = "bf_handle"
        /\ Len(sup[a].folders) = 2
        /\ h[a]["bf"].pc = "index"

\* The stages of handleEmail with a request in flight: to the index store
\* (get, index), to the classifier, to a notifier.
InFlight == {"get", "classify", "index", "slack", "webhook"}

\* C24: locks are not held across other round-trips. While the backfill of
\* an account holds the mailbox lock of its client, its handleEmail call has
\* no request to the index store, the classifier or a notifier in flight;
\* the same for a live handler holding the lock of the current client.
C24_NoRequestUnderLock ==
    \A a \in Accounts :
        /\ client[a].lock = "bf" => h[a]["bf"].pc \notin InFlight
        /\ (client[a].lock = "live" /\ live[a].gen = gen[a]) =>
               h[a]["live"].pc \notin InFlight

\* C25: the live handler fetches one message at most. A handler leaves its
\* status query either for the end (no usable uidNext, uidNext - 1 = 0, a
\* failure) or for the fetch of the one message at uidNext - 1 > 0; the
\* pipeline of a live handler is started only by that fetch, on exactly that
\* message, and when it has finished the handler ends without another fetch.
C25_LiveFetchesLatestOnly ==
    /\ [](\A a \in Accounts :
             /\ live[a].pc \in {"fetch", "handle"} =>
                    live[a].uid \in 1..Len(MailboxOf(a, live[a].folder.path))
             /\ live[a].pc = "handle" =>
                    /\ h[a]["live"].pc # "idle"
                    /\ h[a]["live"].msg =
                           MailboxOf(a, live[a].folder.path)[live[a].uid]
             /\ live[a].pc # "handle" => h[a]["live"] = IdleTask)
    /\ [][\A a \in Accounts :
             /\ (live[a].pc = "status" /\ live'[a].pc # "status") =>
                    \/ live'[a] = IdleLive
                    \/ /\ live'[a].pc = "fetch"
                       /\ Len(MailboxOf(a, live[a].folder.path)) > 0
                       /\ live'[a].uid = Len(MailboxOf(a, live[a].folder.path))
             /\ (live[a].pc = "fetch" /\ live'[a].pc # "fetch") =>
                    \/ live'[a] = IdleLive
                    \/ live'[a] = [live[a] EXCEPT !.pc = "handle"]
             /\ (live[a].pc = "handle" /\ live'[a].pc # "handle") =>
                    live'[a] = IdleLive
             /\ (live[a].pc = "idle" /\ live'[a].pc # "idle") =>
                    live'[a].pc = "status" /\ monRunning[a]]_vars

\* A live handler has fetched the message that arrived after the backfill,
\* the second of the INBOX, and its pipeline is running.
C25_Witness ==
    \E a \in Accounts :
        /\ live[a].pc = "handle" /\ live[a].uid = 2
        /\ Len(MailboxOf(a, Name_INBOX)) = 2
        /\ h[a]["live"].pc \in InFlight

C27_ClosureReconnects ==
    \A a \in Accounts :
        (client[a].state = "closed") ~> (client[a].state # "closed")

\* The messages that have arrived in the INBOX of an account since the start.
Arrived(a) == Len(MailboxOf(a, Name_INBOX)) - Len(InitialMailbox[a][FolderIndex(a, Name_INBOX)])

\* Every disturbance of the run so far has been an arrival: no request has
\* failed or been answered irregularly and no connection has closed.
NoFailures == events = Arrived("a1") + Arrived("a2")

\* C28: no arrival is lost. A message with an identifier that has arrived in
\* the INBOX of an account whose client is open, with its 'exists' event
\* accepted by the live subscriber, is eventually in the index store, unless
\* a request fails or the connection closes; also when a further message
\* arrives before the event has been handled.
C28_ArrivalsStored ==
    \A a \in Accounts :
        \A i \in 2..(MaxEvents + 1) :
            (/\ Len(MailboxOf(a, Name_INBOX)) = i
             /\ ~LacksId(MailboxOf(a, Name_INBOX)[i])
             /\ client[a].state = "open" /\ client[a].onExists
             /\ waiting[a] > 0)
            ~> (\/ /\ Len(MailboxOf(a, Name_INBOX)) >= i
                   /\ EsHas(store, MessageId(MailboxOf(a, Name_INBOX)[i].messageId))
                \/ ~NoFailures)

\* C29: the folder type of a stored document. Every document in the index
\* store has a folderType that is one of the special-use tags, and a
\* document of the folder INBOX has folderType inbox, whether the folders
\* came from the listing or from the fallback of a failed listing.
C29_FolderTypeIsTag ==
    \A d \in store :
        /\ d.folderType \in SpecialUseTags
        /\ d.folder = Name_INBOX => d.folderType = "inbox"
====
